---- MODULE Spec2Model ----
(***************************************************************************)
(* nomouse-cli (src/index.js, the current program: lines 512-1042).        *)
(*                                                                         *)
(* One CLI invocation is one process: it loads the persisted state when    *)
(* the module is evaluated, runs one command handler and exits.  The       *)
(* model keeps the persisted document (disk), the working directory (fs),  *)
(* the wall clock, each process's in-memory `state` and the console and    *)
(* child-process record of the command that ran last (out).                *)
(*                                                                         *)
(* JavaScript values are tagged tuples, so that values of different types  *)
(* can be compared: undefined, null, numbers, ISO-8601 strings, objects.   *)
(* Plain strings (file names, program names) are sequences of characters.  *)
(***************************************************************************)
EXTENDS Integers, Sequences, FiniteSets, TLC

\* ------------------------------------------------------------ JS values
Undefined == <<"undefined">>
Null == <<"null">>
Num(n) == <<"number", n>>
Obj(r) == <<"object", r>>
NumOf(v) == v[2]
FieldsOf(v) == v[2]

\* if (x) / !x for the values the program tests: undefined and null are
\* falsy, objects and non-empty strings are truthy, a number is truthy
\* unless it is 0.
Truthy(v) ==
    /\ v # Undefined
    /\ v # Null
    /\ v # Num(0)

\* ------------------------------------------------------------ time
MsPerSec == 1000
\* The clock advances in half seconds, so that intervals shorter than one
\* second and the floor of Math.floor(ms / 1000) both occur.
\* The longest stem of a file name in the specification of names.
MaxStem == 4
TickMs == MsPerSec \div 2
MaxTicks == 2
\* Cap on stats.generated and stats.run (the program's counters are unbounded).
MaxCount == 2

\* Date.prototype.toISOString: the instant, to the millisecond, as text
\* (seconds part and milliseconds part).
toISOString(t) == <<"iso", t \div MsPerSec, t % MsPerSec>>
\* new Date(isoString), as the number of milliseconds it stands for.
DateOf(s) == s[2] * MsPerSec + s[3]
\* Math.floor(ms / 1000), for any integer.
FloorSeconds(ms) == ms \div MsPerSec

\* ------------------------------------------------------------ strings
RECURSIVE LastIndexOf(_, _, _)
\* The largest i <= from with s[i] = c, or 0.
LastIndexOf(s, c, from) ==
    IF from = 0 THEN 0
    ELSE IF s[from] = c THEN from
    ELSE LastIndexOf(s, c, from - 1)

\* path.basename(p): what follows the last separator.
basename(p) ==
    SubSeq(p, LastIndexOf(p, "/", Len(p)) + 1, Len(p))

\* path.extname(p): from the last "." of the basename to its end; empty when
\* there is no "." or when the basename starts with its only ".".
extname(p) ==
    LET b == basename(p)
        i == LastIndexOf(b, ".", Len(b))
    IN  IF i <= 1 THEN <<>> ELSE SubSeq(b, i, Len(b))

IsPrefixAt(s, pat, i) ==
    /\ i + Len(pat) - 1 <= Len(s)
    /\ SubSeq(s, i, i + Len(pat) - 1) = pat

\* String.prototype.replace(pattern, replacement) with a string pattern:
\* replaces the first occurrence only.
replace(s, pat, rep) ==
    LET hits == {i \in 1..(Len(s) + 1) : IsPrefixAt(s, pat, i)}
    IN  IF hits = {} THEN s
        ELSE LET i == CHOOSE k \in hits : \A j \in hits : k <= j
             IN  SubSeq(s, 1, i - 1) \o rep \o SubSeq(s, i + Len(pat), Len(s))

\* path.basename(p, ext): the basename without the suffix ext (unless the
\* suffix is the whole basename).
basenameExt(p, ext) ==
    LET b == basename(p)
        n == Len(b) - Len(ext)
    IN  IF n >= 1 /\ SubSeq(b, n + 1, Len(b)) = ext THEN SubSeq(b, 1, n) ELSE b

\* ------------------------------------------------------------ the world
ExtCpp == <<".", "c", "p", "p">>
ExtCc == <<".", "c", "c">>
ExtCxx == <<".", "c", "x", "x">>
ExtC == <<".", "c">>
ExtJava == <<".", "j", "a", "v", "a">>
ExtJs == <<".", "j", "s">>
ExtPy == <<".", "p", "y">>
ExtTxt == <<".", "t", "x", "t">>

FileA == <<"a">> \o ExtCpp
FileB == <<"b">> \o ExtCpp
FilePy == <<"s">> \o ExtPy
FileCc == <<"c">> \o ExtCc
FileCxx == <<"d">> \o ExtCxx
FileC == <<"e">> \o ExtC
FileJava == <<"M">> \o ExtJava
FileJs == <<"g">> \o ExtJs
FileTxt == <<"n">> \o ExtTxt

\* The file names given on the command line.
Files ==
    {FileA, FileB, FilePy, FileCc, FileCxx, FileC, FileJava, FileJs, FileTxt}

\* The extensions that have a template in templatesDir (the set command,
\* which writes them, is not part of the model).
Templates == {ExtCpp}

TemplateText(ext) == <<"template">> \o ext
SourceText == <<"source">>

\* What spawnSync reports of a program that could not be launched: the
\* shell it was given to ends with 127 (command not found), and the status
\* is null when the shell itself could not be started.
LaunchFailed == {Num(127), Null}

\* Exit statuses a child process can end with: null when it ended without
\* one (killed by a signal, or never started).
Statuses == {Num(0), Num(1), Num(5)} \cup LaunchFailed

Procs == {1, 2}
\* The processes of the sequential specification.
SeqProcs == {1}

VARIABLES
    clock,   \* wall-clock time, in milliseconds
    disk,    \* the state file: absent, unreadable, or a JSON document
    fs,      \* the working directory: file name -> contents, or Undefined
    state,   \* state[p]: the in-memory `state` of process p
    pc,      \* pc[p]: "loaded" (before its command) or "exited"
    out      \* what the last command printed, spawned and returned

vars == <<clock, disk, fs, state, pc, out>>

\* ------------------------------------------------------------ persistence
DefaultState ==
    [lastGenerated |-> Null,
     lastRun |-> Null,
     stats |-> [generated |-> 0, run |-> 0],
     fileTimestamps |-> Obj([f \in Files |-> Undefined])]

\* A document written by the earlier program (src/index.js:190-199 and its gen
\* command): it has no fileTimestamps.
LegacyState ==
    [lastGenerated |-> FileA,
     lastRun |-> Null,
     stats |-> [generated |-> 1, run |-> 0],
     fileTimestamps |-> Undefined]

Absent == <<"absent">>
Corrupt == <<"corrupt">>
\* fs.writeJsonSync / fs.readJsonSync: JSON text keeps null, numbers, strings
\* and objects and drops the properties whose value is undefined, which is
\* how absent properties are represented here.
JsonDoc(st) == <<"json", st>>

\* The default of the earlier program (src/index.js:199): no fileTimestamps.
loadStateOldDefault(d) ==
    IF d = Absent \/ d = Corrupt
    THEN [DefaultState EXCEPT !.fileTimestamps = Undefined]
    ELSE d[2]

loadState(d) ==
    IF d = Absent \/ d = Corrupt THEN DefaultState ELSE d[2]

saveState(st) == JsonDoc(st)

\* state.fileTimestamps[filename] throws a TypeError when fileTimestamps is
\* undefined.
HasMap(st) == st.fileTimestamps # Undefined
Entry(st, filename) == FieldsOf(st.fileTimestamps)[filename]
WithEntry(st, filename, e) ==
    [st EXCEPT !.fileTimestamps =
        Obj([FieldsOf(st.fileTimestamps) EXCEPT ![filename] = e])]

EmptyObject ==
    [generated |-> Undefined, resumed |-> Undefined, paused |-> Undefined,
     blank |-> Undefined, lastWinded |-> Undefined]

\* The result of a call: the in-memory state after it, its return value,
\* whether it reached saveState(state), whether it threw.
Result(st, ret, saved, threw) ==
    [state |-> st, ret |-> ret, saved |-> saved, threw |-> threw]
Threw(st) == Result(st, Undefined, FALSE, TRUE)

\* ------------------------------------------------------------ the timer
\* registerFileGenerated that keeps the fields of a record that is already
\* there (fileTimestamps[filename] = fileTimestamps[filename] || {}).
registerFileGeneratedKeepsRecord(st, filename, now) ==
    IF ~HasMap(st) THEN Threw(st)
    ELSE LET ts == toISOString(now)
             old == IF Truthy(Entry(st, filename))
                    THEN FieldsOf(Entry(st, filename)) ELSE EmptyObject
             e == [old EXCEPT !.generated = ts, !.resumed = ts]
         IN  Result(WithEntry(st, filename, Obj(e)), ts, TRUE, FALSE)

\* registerFileGenerated that carries the lastWinded of the old record over.
registerFileGeneratedKeepsLastWinded(st, filename, now) ==
    IF ~HasMap(st) THEN Threw(st)
    ELSE LET ts == toISOString(now)
             old == IF Truthy(Entry(st, filename))
                    THEN FieldsOf(Entry(st, filename)) ELSE EmptyObject
             e == [EmptyObject EXCEPT !.generated = ts, !.resumed = ts,
                                      !.lastWinded = old.lastWinded]
         IN  Result(WithEntry(st, filename, Obj(e)), ts, TRUE, FALSE)

registerFileGenerated(st, filename, now) ==
    IF ~HasMap(st) THEN Threw(st)
    ELSE LET ts == toISOString(now)
             e == [EmptyObject EXCEPT !.generated = ts, !.resumed = ts]
         IN  Result(WithEntry(st, filename, Obj(e)), ts, TRUE, FALSE)

\* A wind that also restarts the timer of the file.
registerFileWindedRestarts(st, filename, now) ==
    IF ~HasMap(st) THEN Threw(st)
    ELSE IF ~Truthy(Entry(st, filename)) THEN Result(st, Undefined, FALSE, FALSE)
    ELSE LET ts == toISOString(now)
             e == [FieldsOf(Entry(st, filename)) EXCEPT !.lastWinded = ts,
                                                        !.resumed = ts,
                                                        !.paused = Null]
         IN  Result(WithEntry(st, filename, Obj(e)), ts, TRUE, FALSE)

registerFileWinded(st, filename, now) ==
    IF ~HasMap(st) THEN Threw(st)
    ELSE IF ~Truthy(Entry(st, filename)) THEN Result(st, Undefined, FALSE, FALSE)
    ELSE LET ts == toISOString(now)
             e == [FieldsOf(Entry(st, filename)) EXCEPT !.lastWinded = ts]
         IN  Result(WithEntry(st, filename, Obj(e)), ts, TRUE, FALSE)

\* pauseTimer that makes a record for a file that has none.
pauseTimerCreatesRecord(st, filename, now) ==
    IF ~HasMap(st) THEN Threw(st)
    ELSE LET ts == toISOString(now)
             old == IF Truthy(Entry(st, filename))
                    THEN FieldsOf(Entry(st, filename)) ELSE EmptyObject
             e == [old EXCEPT !.paused = ts]
         IN  Result(WithEntry(st, filename, Obj(e)), ts, TRUE, FALSE)

pauseTimer(st, filename, now) ==
    IF ~HasMap(st) THEN Threw(st)
    ELSE IF ~Truthy(Entry(st, filename)) THEN Result(st, Undefined, FALSE, FALSE)
    ELSE LET ts == toISOString(now)
             e == [FieldsOf(Entry(st, filename)) EXCEPT !.paused = ts]
         IN  Result(WithEntry(st, filename, Obj(e)), ts, TRUE, FALSE)

\* resumeTimer that returns the paused interval in milliseconds.
resumeTimerReturnsMillis(st, filename, now) ==
    IF ~HasMap(st) THEN Threw(st)
    ELSE IF ~Truthy(Entry(st, filename)) THEN Result(st, Num(0), FALSE, FALSE)
    ELSE IF ~Truthy(FieldsOf(Entry(st, filename)).paused)
         THEN Result(st, Num(-1), FALSE, FALSE)
    ELSE LET elapsed == now - DateOf(FieldsOf(Entry(st, filename)).paused)
             ts == toISOString(now)
             e == [FieldsOf(Entry(st, filename)) EXCEPT
                      !.resumed = ts, !.paused = Null, !.blank = Num(elapsed)]
         IN  Result(WithEntry(st, filename, Obj(e)), Num(elapsed), TRUE, FALSE)

\* resumeTimer that stamps `resumed` and saves before it tests `paused`.
resumeTimerStampsActive(st, filename, now) ==
    IF ~HasMap(st) THEN Threw(st)
    ELSE IF ~Truthy(Entry(st, filename)) THEN Result(st, Num(0), FALSE, FALSE)
    ELSE LET old == FieldsOf(Entry(st, filename))
             ts == toISOString(now)
         IN  IF ~Truthy(old.paused)
             THEN Result(WithEntry(st, filename, Obj([old EXCEPT !.resumed = ts])),
                         Num(-1), TRUE, FALSE)
             ELSE LET elapsed == now - DateOf(old.paused)
                      e == [old EXCEPT !.resumed = ts, !.paused = Null,
                                       !.blank = Num(elapsed)]
                  IN  Result(WithEntry(st, filename, Obj(e)),
                             Num(FloorSeconds(elapsed)), TRUE, FALSE)

\* resumeTimer that writes its timestamp to `generated` instead of `resumed`.
resumeTimerStampsGenerated(st, filename, now) ==
    IF ~HasMap(st) THEN Threw(st)
    ELSE IF ~Truthy(Entry(st, filename)) THEN Result(st, Num(0), FALSE, FALSE)
    ELSE IF ~Truthy(FieldsOf(Entry(st, filename)).paused)
         THEN Result(st, Num(-1), FALSE, FALSE)
    ELSE LET elapsed == now - DateOf(FieldsOf(Entry(st, filename)).paused)
             ts == toISOString(now)
             e == [FieldsOf(Entry(st, filename)) EXCEPT
                      !.generated = ts, !.paused = Null, !.blank = Num(elapsed)]
         IN  Result(WithEntry(st, filename, Obj(e)),
                    Num(FloorSeconds(elapsed)), TRUE, FALSE)

resumeTimer(st, filename, now) ==
    IF ~HasMap(st) THEN Threw(st)
    ELSE IF ~Truthy(Entry(st, filename)) THEN Result(st, Num(0), FALSE, FALSE)
    ELSE IF ~Truthy(FieldsOf(Entry(st, filename)).paused)
         THEN Result(st, Num(-1), FALSE, FALSE)
    ELSE LET elapsed == now - DateOf(FieldsOf(Entry(st, filename)).paused)
             ts == toISOString(now)
             e == [FieldsOf(Entry(st, filename)) EXCEPT
                      !.resumed = ts, !.paused = Null, !.blank = Num(elapsed)]
         IN  Result(WithEntry(st, filename, Obj(e)),
                    Num(FloorSeconds(elapsed)), TRUE, FALSE)

\* (blank || 0)
BlankOrZero(e) == IF Truthy(e.blank) THEN NumOf(e.blank) ELSE 0

retrieveSecondsSpent(st, filename, now) ==
    IF ~Truthy(Entry(st, filename)) THEN -1
    ELSE LET e == FieldsOf(Entry(st, filename))
             spent == IF Truthy(e.paused)
                      THEN DateOf(e.paused) - DateOf(e.generated) + BlankOrZero(e)
                      ELSE now - DateOf(e.generated) + BlankOrZero(e)
         IN  FloorSeconds(spent)

retrieveSecondsSinceLastWind(st, filename, now) ==
    IF ~Truthy(Entry(st, filename)) THEN -1
    ELSE IF ~Truthy(FieldsOf(Entry(st, filename)).lastWinded) THEN -1
    ELSE FloorSeconds(now - DateOf(FieldsOf(Entry(st, filename)).lastWinded))

\* ------------------------------------------------------------ console
Line(msg, arg) == [msg |-> msg, arg |-> arg]

\* What a command leaves behind: the lines it printed, the child processes
\* it spawned (in order, with the status each ended with), the value the
\* timer call returned, what it put on the clipboard, and the exit status of
\* the process.
Output(cmd, file, log, spawned, ret, copied, exit) ==
    [cmd |-> cmd, file |-> file, log |-> log, spawned |-> spawned,
     ret |-> ret, copied |-> copied, exit |-> exit]

Last(log) == log[Len(log)]
Printed(o, msg) == \E i \in 1..Len(o.log) : o.log[i].msg = msg

\* A rejected promise of an action handler is never handled (program.parse()
\* does not await it): Node ends the process with status 1, or, before
\* Node 15, warns and ends it with status 0.
UnhandledExits == {0, 1}

\* ------------------------------------------------------------ run dispatch
Node == <<"n", "o", "d", "e">>
Python == <<"p", "y", "t", "h", "o", "n">>
Gpp == <<"g", "+", "+">>
Gcc == <<"g", "c", "c">>
Javac == <<"j", "a", "v", "a", "c">>
Java == <<"j", "a", "v", "a">>
DashO == <<"-", "o">>
DotSlash == <<".", "/">>

Spawn(cmd, args, status) == [cmd |-> cmd, args |-> args, status |-> status]

Ran(log, spawned) == [log |-> log, spawned |-> spawned]

\* An interpreted branch that starts the interpreter again after a failure.
InterpretedRetries(intro, failed, cmd, args, rs) ==
    IF rs # Num(0)
    THEN Ran(<<Line(intro, Undefined), Line(failed, rs)>>,
             <<Spawn(cmd, args, rs), Spawn(cmd, args, rs)>>)
    ELSE Ran(<<Line(intro, Undefined)>>, <<Spawn(cmd, args, rs)>>)

\* An interpreted branch (.js, .py): one process.
Interpreted(intro, failed, cmd, args, rs) ==
    IF rs # Num(0)
    THEN Ran(<<Line(intro, Undefined), Line(failed, rs)>>, <<Spawn(cmd, args, rs)>>)
    ELSE Ran(<<Line(intro, Undefined)>>, <<Spawn(cmd, args, rs)>>)

\* A compiled branch without the `return` after a failed compilation.
CompiledRunsAnyway(intro, running, cc, ccArgs, cs, cmd, args, rs) ==
    LET head == IF cs # Num(0)
                THEN <<Line(intro, Undefined),
                       Line("Compilation failed with exit code", cs),
                       Line(running, Undefined)>>
                ELSE <<Line(intro, Undefined), Line(running, Undefined)>>
        procs == <<Spawn(cc, ccArgs, cs), Spawn(cmd, args, rs)>>
    IN  IF rs # Num(0)
        THEN Ran(head \o <<Line("Program exited with code", rs)>>, procs)
        ELSE Ran(head, procs)

\* A compiled branch (.cpp/.cc/.cxx, .c, .java): the compile process, then,
\* when it ended with status 0, the run process.
Compiled(intro, running, cc, ccArgs, cs, cmd, args, rs) ==
    IF cs # Num(0)
    THEN Ran(<<Line(intro, Undefined), Line("Compilation failed with exit code", cs)>>,
             <<Spawn(cc, ccArgs, cs)>>)
    ELSE IF rs # Num(0)
    THEN Ran(<<Line(intro, Undefined), Line(running, Undefined),
               Line("Program exited with code", rs)>>,
             <<Spawn(cc, ccArgs, cs), Spawn(cmd, args, rs)>>)
    ELSE Ran(<<Line(intro, Undefined), Line(running, Undefined)>>,
             <<Spawn(cc, ccArgs, cs), Spawn(cmd, args, rs)>>)

\* The switch on the extension: cs and rs are the statuses the compile and
\* the run process end with, if spawned.
runSwitch(filename, cs, rs) ==
    LET ext == extname(filename) IN
    IF ext = ExtJs
    THEN Interpreted("Running JavaScript file...",
                     "JavaScript execution failed with exit code",
                     Node, <<filename>>, rs)
    ELSE IF ext = ExtPy
    THEN Interpreted("Running Python file...",
                     "Python execution failed with exit code",
                     Python, <<filename>>, rs)
    ELSE IF ext \in {ExtCpp, ExtCc, ExtCxx}
    THEN LET outputName == replace(filename, ext, <<>>)
         IN  Compiled("Compiling C++ file...", "Running compiled file...",
                      Gpp, <<DashO, outputName, filename>>, cs,
                      outputName, <<>>, rs)
    ELSE IF ext = ExtC
    THEN LET cOutputName == replace(filename, ext, <<>>)
         IN  Compiled("Compiling C file...", "Running compiled file...",
                      Gcc, <<DashO, cOutputName, filename>>, cs,
                      DotSlash \o cOutputName, <<>>, rs)
    ELSE IF ext = ExtJava
    THEN LET className == basenameExt(filename, ext)
         IN  Compiled("Compiling Java file...", "Running Java file...",
                      Javac, <<filename>>, cs,
                      Java, <<className>>, rs)
    ELSE Ran(<<Line("No specific test handler", ext)>>, <<>>)

\* A switch whose default branch returns like the failure branches.
ReturnedFromDefault(r) ==
    r.spawned = <<>> \/ Last(r.spawned).status # Num(0)

\* A switch whose failure branches fall through to the final report.
ReturnedNever(r) == FALSE

\* Whether the branch ended with `return` (a failure was printed) instead of
\* `break`.
Returned(r) ==
    /\ r.spawned # <<>>
    /\ Last(r.spawned).status # Num(0)

\* ------------------------------------------------------------ commands
Loaded(p) == pc[p] = "loaded"
Exit(p) == pc' = [pc EXCEPT ![p] = "exited"]
\* The existence test without its await: a promise, always truthy.
ExistsAlways(filename) == TRUE
Exists(filename) == fs[filename] # Undefined

\* state.lastRun || state.lastGenerated
targetFile(st) == IF Truthy(st.lastRun) THEN st.lastRun ELSE st.lastGenerated

NothingYet(st) == ~Truthy(st.lastRun) /\ ~Truthy(st.lastGenerated)

\* A new invocation: the module is evaluated, `let state = loadState()`.
Start(p) ==
    /\ pc[p] = "exited"
    /\ pc' = [pc EXCEPT ![p] = "loaded"]
    /\ state' = [state EXCEPT ![p] = loadState(disk)]
    /\ out' = Output("load", Null,
                     IF disk = Corrupt
                     THEN <<Line("Warning: Could not load previous state", Undefined)>>
                     ELSE <<>>,
                     <<>>, Undefined, Undefined, 0)
    /\ UNCHANGED <<clock, disk, fs>>

\* Time passes.
Tick ==
    /\ clock < MaxTicks * TickMs
    /\ clock' = clock + TickMs
    /\ UNCHANGED <<disk, fs, state, pc, out>>

\* nms gen <filename>
\* A gen that records the file before it looks for the template.
GenCountsWithoutTemplate(p, filename) ==
    /\ Loaded(p)
    /\ state[p].stats.generated < MaxCount
    /\ LET ext == extname(filename)
           st1 == [state[p] EXCEPT !.lastGenerated = filename,
                                   !.stats.generated = @ + 1]
           r == registerFileGenerated(st1, filename, clock)
       IN  IF ext \notin Templates
           THEN /\ out' = Output("gen", filename,
                                 <<Line("No template found", ext)>>,
                                 <<>>, Undefined, Undefined, 0)
                /\ state' = [state EXCEPT ![p] = st1]
                /\ disk' = saveState(st1)
                /\ UNCHANGED fs
           ELSE /\ fs' = [fs EXCEPT ![filename] = TemplateText(ext)]
                /\ state' = [state EXCEPT ![p] = r.state]
                /\ IF r.threw
                   THEN /\ out' = Output("gen", filename,
                                         <<Line("Error generating file", Undefined)>>,
                                         <<>>, Undefined, Undefined, 0)
                        /\ UNCHANGED disk
                   ELSE /\ out' = Output("gen", filename,
                                         <<Line("Generated", filename)>>,
                                         <<>>, r.ret, Undefined, 0)
                        /\ disk' = saveState(r.state)
    /\ Exit(p)
    /\ UNCHANGED clock

Gen(p, filename) ==
    /\ Loaded(p)
    /\ state[p].stats.generated < MaxCount
    /\ LET ext == extname(filename)
           st1 == [state[p] EXCEPT !.lastGenerated = filename,
                                   !.stats.generated = @ + 1]
           r == registerFileGenerated(st1, filename, clock)
       IN  IF ext \notin Templates
           THEN /\ out' = Output("gen", filename,
                                 <<Line("No template found", ext)>>,
                                 <<>>, Undefined, Undefined, 0)
                /\ UNCHANGED <<disk, fs, state>>
           ELSE /\ fs' = [fs EXCEPT ![filename] = TemplateText(ext)]
                /\ state' = [state EXCEPT ![p] = r.state]
                /\ IF r.threw
                   THEN /\ out' = Output("gen", filename,
                                         <<Line("Error generating file", Undefined)>>,
                                         <<>>, Undefined, Undefined, 0)
                        /\ UNCHANGED disk
                   ELSE /\ out' = Output("gen", filename,
                                         <<Line("Generated", filename)>>,
                                         <<>>, r.ret, Undefined, 0)
                        /\ disk' = saveState(r.state)
    /\ Exit(p)
    /\ UNCHANGED clock

\* nms run <filename>; cs and rs are the statuses the child processes end with.
Run(p, filename, cs, rs) ==
    /\ Loaded(p)
    /\ state[p].stats.run < MaxCount
    /\ IF ~Exists(filename)
       THEN /\ out' = Output("run", filename,
                             <<Line("File does not exist", filename)>>,
                             <<>>, Undefined, Undefined, 0)
            /\ UNCHANGED <<disk, state>>
       ELSE LET st1 == [state[p] EXCEPT !.lastRun = filename, !.stats.run = @ + 1]
                r == runSwitch(filename, cs, rs)
                log == <<Line("Running", filename)>> \o r.log
            IN  /\ state' = [state EXCEPT ![p] = st1]
                /\ disk' = saveState(st1)
                /\ out' = Output("run", filename,
                                 IF Returned(r) THEN log
                                 ELSE log \o <<Line("Run completed", filename)>>,
                                 r.spawned, Undefined, Undefined, 0)
    /\ Exit(p)
    /\ UNCHANGED <<clock, fs>>

\* nms wind
\* The run action in two steps, as the operating system sees it: everything
\* up to the dispatch (existence test, lastRun, counter, saveState), then
\* the dispatch with its child processes.
RunBeginSavesNothing(p, filename) ==
    /\ Loaded(p)
    /\ state[p].stats.run < MaxCount
    /\ IF ~Exists(filename)
       THEN /\ out' = Output("run", filename,
                             <<Line("File does not exist", filename)>>,
                             <<>>, Undefined, Undefined, 0)
            /\ UNCHANGED state
            /\ Exit(p)
       ELSE /\ state' = [state EXCEPT ![p] = [@ EXCEPT !.lastRun = filename,
                                                       !.stats.run = @ + 1]]
            /\ out' = Output("run", filename, <<Line("Running", filename)>>,
                             <<>>, Undefined, Undefined, 0)
            /\ pc' = [pc EXCEPT ![p] = "spawning"]
    /\ UNCHANGED <<clock, fs, disk>>

RunBegin(p, filename) ==
    /\ Loaded(p)
    /\ state[p].stats.run < MaxCount
    /\ IF ~Exists(filename)
       THEN /\ out' = Output("run", filename,
                             <<Line("File does not exist", filename)>>,
                             <<>>, Undefined, Undefined, 0)
            /\ UNCHANGED <<disk, state>>
            /\ Exit(p)
       ELSE LET st1 == [state[p] EXCEPT !.lastRun = filename, !.stats.run = @ + 1]
            IN  /\ state' = [state EXCEPT ![p] = st1]
                /\ disk' = saveState(st1)
                /\ out' = Output("run", filename, <<Line("Running", filename)>>,
                                 <<>>, Undefined, Undefined, 0)
                /\ pc' = [pc EXCEPT ![p] = "spawning"]
    /\ UNCHANGED <<clock, fs>>

RunSpawn(p, cs, rs) ==
    /\ pc[p] = "spawning"
    /\ LET r == runSwitch(out.file, cs, rs)
           log == out.log \o r.log
       IN  out' = Output("run", out.file,
                         IF Returned(r) THEN log
                         ELSE log \o <<Line("Run completed", out.file)>>,
                         r.spawned, Undefined, Undefined, 0)
    /\ Exit(p)
    /\ UNCHANGED <<clock, fs, disk, state>>

\* A wind that stamps lastWinded before it reads it.
WindStampsFirst(p) ==
    /\ Loaded(p)
    /\ LET st == state[p]
           target == targetFile(st)
       IN  IF NothingYet(st)
           THEN /\ out' = Output("wind", Null,
                                 <<Line("No file has been generated or run yet", Undefined)>>,
                                 <<>>, Undefined, Undefined, 0)
                /\ UNCHANGED <<disk, state>>
           ELSE IF ~Exists(target)
           THEN /\ out' = Output("wind", target,
                                 <<Line("Last file no longer exists", target)>>,
                                 <<>>, Undefined, Undefined, 0)
                /\ UNCHANGED <<disk, state>>
           ELSE IF ~HasMap(st)
           THEN /\ out' = Output("wind", target,
                                 <<Line("Error copying file", Undefined)>>,
                                 <<>>, Undefined, fs[target], 0)
                /\ UNCHANGED <<disk, state>>
           ELSE LET r == registerFileWinded(st, target, clock)
                    sinceLastWind == retrieveSecondsSinceLastWind(r.state, target, clock)
                    spent == retrieveSecondsSpent(r.state, target, clock)
                    log == <<Line("Copied", target), Line("File", target),
                             Line("Total time spent", Num(spent))>>
                IN  /\ state' = [state EXCEPT ![p] = r.state]
                    /\ disk' = IF r.saved THEN saveState(r.state) ELSE disk
                    /\ out' = Output("wind", target,
                                     IF sinceLastWind >= 0
                                     THEN log \o <<Line("Since last wind", Num(sinceLastWind))>>
                                     ELSE log,
                                     <<>>, r.ret, fs[target], 0)
    /\ Exit(p)
    /\ UNCHANGED <<clock, fs>>

Wind(p) ==
    /\ Loaded(p)
    /\ LET st == state[p]
           target == targetFile(st)
       IN  IF NothingYet(st)
           THEN /\ out' = Output("wind", Null,
                                 <<Line("No file has been generated or run yet", Undefined)>>,
                                 <<>>, Undefined, Undefined, 0)
                /\ UNCHANGED <<disk, state>>
           ELSE IF ~Exists(target)
           THEN /\ out' = Output("wind", target,
                                 <<Line("Last file no longer exists", target)>>,
                                 <<>>, Undefined, Undefined, 0)
                /\ UNCHANGED <<disk, state>>
           ELSE IF ~HasMap(st)
           THEN /\ out' = Output("wind", target,
                                 <<Line("Error copying file", Undefined)>>,
                                 <<>>, Undefined, fs[target], 0)
                /\ UNCHANGED <<disk, state>>
           ELSE LET sinceLastWind == retrieveSecondsSinceLastWind(st, target, clock)
                    r == registerFileWinded(st, target, clock)
                    spent == retrieveSecondsSpent(r.state, target, clock)
                    log == <<Line("Copied", target), Line("File", target),
                             Line("Total time spent", Num(spent))>>
                IN  /\ state' = [state EXCEPT ![p] = r.state]
                    /\ disk' = IF r.saved THEN saveState(r.state) ELSE disk
                    /\ out' = Output("wind", target,
                                     IF sinceLastWind >= 0
                                     THEN log \o <<Line("Since last wind", Num(sinceLastWind))>>
                                     ELSE log,
                                     <<>>, r.ret, fs[target], 0)
    /\ Exit(p)
    /\ UNCHANGED <<clock, fs>>

\* A pause that reads the document again before it changes it.
PauseReloads(p) ==
    /\ Loaded(p)
    /\ LET st == loadState(disk)
           target == targetFile(st)
           r == pauseTimer(st, target, clock)
       IN  IF NothingYet(st)
           THEN /\ out' = Output("pause", Null,
                                 <<Line("No file has been generated or run yet", Undefined)>>,
                                 <<>>, Undefined, Undefined, 0)
                /\ UNCHANGED <<disk, state>>
           ELSE IF ~Exists(target)
           THEN /\ out' = Output("pause", target,
                                 <<Line("Last file no longer exists", target)>>,
                                 <<>>, Undefined, Undefined, 0)
                /\ UNCHANGED <<disk, state>>
           ELSE IF r.threw
           THEN /\ \E x \in UnhandledExits :
                      out' = Output("pause", target,
                                    <<Line("Unhandled rejection", Undefined)>>,
                                    <<>>, Undefined, Undefined, x)
                /\ UNCHANGED <<disk, state>>
           ELSE /\ state' = [state EXCEPT ![p] = r.state]
                /\ disk' = IF r.saved THEN saveState(r.state) ELSE disk
                /\ out' = Output("pause", target,
                                 <<Line("Paused timer", target)>>,
                                 <<>>, r.ret, Undefined, 0)
    /\ Exit(p)
    /\ UNCHANGED <<clock, fs>>

\* nms pause
Pause(p) ==
    /\ Loaded(p)
    /\ LET st == state[p]
           target == targetFile(st)
           r == pauseTimer(st, target, clock)
       IN  IF NothingYet(st)
           THEN /\ out' = Output("pause", Null,
                                 <<Line("No file has been generated or run yet", Undefined)>>,
                                 <<>>, Undefined, Undefined, 0)
                /\ UNCHANGED <<disk, state>>
           ELSE IF ~Exists(target)
           THEN /\ out' = Output("pause", target,
                                 <<Line("Last file no longer exists", target)>>,
                                 <<>>, Undefined, Undefined, 0)
                /\ UNCHANGED <<disk, state>>
           ELSE IF r.threw
           THEN /\ \E x \in UnhandledExits :
                      out' = Output("pause", target,
                                    <<Line("Unhandled rejection", Undefined)>>,
                                    <<>>, Undefined, Undefined, x)
                /\ UNCHANGED <<disk, state>>
           ELSE /\ state' = [state EXCEPT ![p] = r.state]
                /\ disk' = IF r.saved THEN saveState(r.state) ELSE disk
                /\ out' = Output("pause", target,
                                 <<Line("Paused timer", target)>>,
                                 <<>>, r.ret, Undefined, 0)
    /\ Exit(p)
    /\ UNCHANGED <<clock, fs>>

\* nms resume
Resume(p) ==
    /\ Loaded(p)
    /\ LET st == state[p]
           target == targetFile(st)
           r == resumeTimer(st, target, clock)
           elapsed == r.ret
       IN  IF NothingYet(st)
           THEN /\ out' = Output("resume", Null,
                                 <<Line("No file has been generated or run yet", Undefined)>>,
                                 <<>>, Undefined, Undefined, 0)
                /\ UNCHANGED <<disk, state>>
           ELSE IF ~Exists(target)
           THEN /\ out' = Output("resume", target,
                                 <<Line("Last file no longer exists", target)>>,
                                 <<>>, Undefined, Undefined, 0)
                /\ UNCHANGED <<disk, state>>
           ELSE IF r.threw
           THEN /\ \E x \in UnhandledExits :
                      out' = Output("resume", target,
                                    <<Line("Unhandled rejection", Undefined)>>,
                                    <<>>, Undefined, Undefined, x)
                /\ UNCHANGED <<disk, state>>
           ELSE /\ state' = [state EXCEPT ![p] = r.state]
                /\ disk' = IF r.saved THEN saveState(r.state) ELSE disk
                /\ out' = Output("resume", target,
                                 IF elapsed = Num(-1)
                                 THEN <<Line("Timer is already running", Undefined)>>
                                 ELSE IF elapsed = Num(0)
                                 THEN <<Line("No file has been active yet", Undefined)>>
                                 ELSE <<Line("Resumed timer", target),
                                        Line("Elapsed time", elapsed)>>,
                                 <<>>, elapsed, Undefined, 0)
    /\ Exit(p)
    /\ UNCHANGED <<clock, fs>>

\* Object.keys(state.fileTimestamps).length
Tracked(st) == Cardinality({f \in Files : Truthy(Entry(st, f))})

\* nms status
Status(p) ==
    /\ Loaded(p)
    /\ LET st == state[p]
           head == <<Line("Last Generated", st.lastGenerated),
                     Line("Last Run", st.lastRun),
                     Line("Generated", Num(st.stats.generated)),
                     Line("Run", Num(st.stats.run))>>
       IN  out' = Output("status", Null,
                         IF HasMap(st)
                         THEN head \o <<Line("Tracked", Num(Tracked(st))),
                                        Line("Available Templates", Undefined)>>
                         ELSE head \o <<Line("Error showing status", Undefined)>>,
                         <<>>, Undefined, Undefined, 0)
    /\ Exit(p)
    /\ UNCHANGED <<clock, disk, fs, state>>

\* ------------------------------------------------------------ specification
\* The working directory before any command: the sources to run are there,
\* the files gen can create are not.
InitialFs == [f \in Files |-> IF extname(f) \in Templates THEN Undefined ELSE SourceText]

\* First use, an unreadable state file, or a state file of the earlier
\* program (whose last generated file is gone).
Init ==
    /\ clock = 0
    /\ disk \in {Absent, Corrupt, JsonDoc(LegacyState)}
    /\ fs = InitialFs
    /\ state = [p \in Procs |-> loadState(disk)]
    /\ pc = [p \in Procs |-> "loaded"]
    /\ out = Output("load", Null,
                    IF disk = Corrupt
                    THEN <<Line("Warning: Could not load previous state", Undefined)>>
                    ELSE <<>>,
                    <<>>, Undefined, Undefined, 0)

\* The files and child statuses of the sequential specification, in which
\* the timer commands follow gen and run: a source that is generated and
\* run, and a source without a template that is run but never generated.
SessionFiles == {FileA, FileC}
SessionStatuses == {Num(0), Num(1)}

Command(p) ==
    \/ \E f \in SessionFiles : Gen(p, f)
    \/ \E f \in SessionFiles, cs \in SessionStatuses, rs \in SessionStatuses :
          Run(p, f, cs, rs)
    \/ Wind(p)
    \/ Pause(p)
    \/ Resume(p)
    \/ Status(p)

\* One invocation at a time.
Next ==
    \/ Tick
    \/ \E p \in SeqProcs : Start(p)
    \/ \E p \in SeqProcs : Command(p)

Spec == Init /\ [][Next]_vars

\* The run dispatcher on every file name and every child status.
NextRun ==
    \/ \E p \in SeqProcs : Start(p)
    \/ \E p \in SeqProcs, f \in Files : Gen(p, f)
    \/ \E p \in SeqProcs, f \in Files, cs \in Statuses, rs \in Statuses :
          Run(p, f, cs, rs)

SpecRun == Init /\ [][NextRun]_vars

\* The run dispatcher with the two steps of a run apart.
NextRunSteps ==
    \/ \E p \in SeqProcs : Start(p)
    \/ \E p \in SeqProcs, f \in Files : Gen(p, f)
    \/ \E p \in SeqProcs, f \in Files : RunBegin(p, f)
    \/ \E p \in SeqProcs, cs \in Statuses, rs \in Statuses : RunSpawn(p, cs, rs)

SpecRunSteps == Init /\ [][NextRunSteps]_vars

\* Two invocations at once (two terminals): each loads when it starts and
\* saves inside its command, and nothing orders one against the other.  The
\* two are within one tick of the clock of each other.
NextRace ==
    \/ clock < TickMs /\ Tick
    \/ \E p \in Procs : Start(p)
    \/ \E p \in Procs : Gen(p, FileA)
    \/ \E p \in Procs : Wind(p)
    \/ \E p \in Procs : Pause(p)
    \/ \E p \in Procs : Resume(p)

SpecRace == Init /\ [][NextRace]_vars

\* The run command on file names of every shape: a stem of up to MaxStem
\* characters, dots and separators among them, and a compiled extension.
\* The files are in the working directory; one invocation.
NameChars == {"a", "c", ".", "/"}
Stems == UNION {[1..k -> NameChars] : k \in 1..MaxStem}
Names == {stem \o ext : stem \in Stems, ext \in {ExtCpp, ExtC}}

InitNames ==
    /\ clock = 0
    /\ disk = Absent
    /\ fs = [f \in Files \cup Names |-> IF f \in Files THEN InitialFs[f] ELSE SourceText]
    /\ state = [p \in Procs |-> loadState(disk)]
    /\ pc = [p \in Procs |-> "loaded"]
    /\ out = Output("load", Null, <<>>, <<>>, Undefined, Undefined, 0)

NextNames ==
    \E p \in SeqProcs, f \in Names, cs \in SessionStatuses, rs \in SessionStatuses :
        Run(p, f, cs, rs)

SpecNames == InitNames /\ [][NextNames]_vars

\* Two generated files and one that is only run, one invocation at a time:
\* the target of the timer commands is the file generated last until e.c is
\* run, and e.c from then on.
NextTwo ==
    \/ clock < TickMs /\ Tick
    \/ \E p \in SeqProcs : Start(p)
    \/ \E p \in SeqProcs, f \in {FileA, FileB} : Gen(p, f)
    \/ \E p \in SeqProcs : Run(p, FileC, Num(0), Num(0))
    \/ \E p \in SeqProcs : Wind(p)
    \/ \E p \in SeqProcs : Pause(p)
    \/ \E p \in SeqProcs : Resume(p)

SpecTwo == Init /\ [][NextTwo]_vars

\* ------------------------------------------------------------ claims
\* The process of the sequential specifications, its memory, and the
\* persisted document as the next invocation reads it.
Mem == state[1]
Doc == loadState(disk)

RecOf(st, f) == FieldsOf(Entry(st, f))
IsTracked(st, f) == HasMap(st) /\ f \in Files /\ Truthy(Entry(st, f))
IsPaused(st, f) == IsTracked(st, f) /\ Truthy(RecOf(st, f).paused)
IsActive(st, f) == IsTracked(st, f) /\ ~Truthy(RecOf(st, f).paused)

\* This step is the command `cmd` of process 1.
Step(cmd) == pc[1] = "loaded" /\ pc'[1] = "exited" /\ out'.cmd = cmd
\* The command reached its timer call: there is a target and it is on disk.
Reached(st) == ~NothingYet(st) /\ Exists(targetFile(st))

CompiledExts == {ExtCpp, ExtCc, ExtCxx, ExtC, ExtJava}
Compilers == {Gpp, Gcc, Javac}
RunFailures ==
    {"Program exited with code", "JavaScript execution failed with exit code",
     "Python execution failed with exit code"}
Dispatched(o) == o.cmd = "run" /\ ~Printed(o, "File does not exist")
AllExitedZero(o) == \A i \in 1..Len(o.spawned) : o.spawned[i].status = Num(0)

\* C1: in a run of a file with a compile phase (.cpp, .cc, .cxx, .c, .java),
\* when the compile process ends with a status other than 0 (or with none),
\* the compile process is the only process spawned: the run process never is.
C1_FailedCompileStops ==
    (/\ Dispatched(out)
     /\ extname(out.file) \in CompiledExts
     /\ out.spawned # <<>>
     /\ out.spawned[1].status # Num(0))
    => /\ Len(out.spawned) = 1
       /\ out.spawned[1].cmd \in Compilers

C1_Witness ==
    /\ Dispatched(out)
    /\ extname(out.file) = ExtJava
    /\ Len(out.spawned) = 1
    /\ out.spawned[1].cmd = Javac
    /\ out.spawned[1].status = Null

\* C2: a run that reaches the dispatcher ends with the 'Run completed' report
\* if and only if every process it spawned exited 0; a failed compile ends it
\* with the compilation-failure report carrying the compiler's status, and a
\* failed run process (after a compile that exited 0, or with no compile
\* phase) ends it with the runtime-failure report carrying exactly that status.
C2_Outcome ==
    Dispatched(out) =>
        LET n == Len(out.spawned)
            last == Last(out.log)
            compiled == extname(out.file) \in CompiledExts
        IN  /\ (last.msg = "Run completed") <=> AllExitedZero(out)
            /\ (compiled /\ out.spawned[1].status # Num(0))
                  => last = Line("Compilation failed with exit code",
                                 out.spawned[1].status)
            /\ (/\ n > 0
                /\ out.spawned[n].status # Num(0)
                /\ compiled => (n = 2 /\ out.spawned[1].status = Num(0)))
                  => /\ last.msg \in RunFailures
                     /\ last.arg = out.spawned[n].status

C2_Witness ==
    /\ Dispatched(out)
    /\ extname(out.file) = ExtC
    /\ Len(out.spawned) = 2
    /\ out.spawned[1].status = Num(0)
    /\ out.spawned[2].status = Num(5)
    /\ Last(out.log) = Line("Program exited with code", Num(5))

\* C3: a resume at time t2 of a file paused at t1 leaves retrieveSecondsSpent
\* at the value it had at t1 (the value it is frozen at while paused), and
\* increases blank by exactly t2 - t1.
C3_PauseResumeKeepsActiveTime ==
    [][(Step("resume") /\ Reached(Mem) /\ IsPaused(Mem, targetFile(Mem)))
        => LET f == targetFile(Mem)
               before == RecOf(Mem, f)
               after == RecOf(Mem', f)
           IN  /\ retrieveSecondsSpent(Mem', f, clock)
                    = retrieveSecondsSpent(Mem, f, clock)
               /\ BlankOrZero(after)
                    = BlankOrZero(before) + (clock - DateOf(before.paused))]_vars

\* C4: blank never decreases under pause, resume and wind, and every resume
\* adds its paused interval to the previous blank instead of replacing it, so
\* that blank is the sum of the paused intervals.
C4_BlankAccumulates ==
    [][\A f \in Files :
        (IsTracked(Mem, f) /\ ~Step("gen"))
        => /\ IsTracked(Mem', f)
           /\ BlankOrZero(RecOf(Mem', f)) >= BlankOrZero(RecOf(Mem, f))
           /\ (Step("resume") /\ Printed(out', "Resumed timer") /\ f = targetFile(Mem))
                 => BlankOrZero(RecOf(Mem', f))
                      = BlankOrZero(RecOf(Mem, f))
                        + (clock - DateOf(RecOf(Mem, f).paused))]_vars

\* C5: for every tracked file, retrieveSecondsSpent is the whole seconds of
\* now - generated - blank when the file is Active and of
\* paused - generated - blank when it is Paused.
C5_ActiveSecondsFormula ==
    \A f \in Files :
        IsTracked(Mem, f) =>
            LET e == RecOf(Mem, f)
                until == IF Truthy(e.paused) THEN DateOf(e.paused) ELSE clock
            IN  retrieveSecondsSpent(Mem, f, clock)
                  = FloorSeconds(until - DateOf(e.generated) - BlankOrZero(e))

\* C6: a pause of a file that is already Paused is rejected: it changes
\* nothing in memory or in the persisted document, so that paused keeps the
\* time of the first pause.
C6_SecondPauseRejected ==
    [][(Step("pause") /\ Reached(Mem) /\ IsPaused(Mem, targetFile(Mem)))
        => /\ Mem' = Mem
           /\ disk' = disk]_vars

\* C7: a resume of a tracked file that is Active returns -1, is reported as
\* 'already running', changes nothing in memory and writes nothing to the
\* persisted document.
C7_ResumeActiveIsNoOp ==
    [][(Step("resume") /\ Reached(Mem) /\ IsActive(Mem, targetFile(Mem)))
        => /\ out'.ret = Num(-1)
           /\ Printed(out', "Timer is already running")
           /\ Mem' = Mem
           /\ disk' = disk]_vars

C7_Witness ==
    /\ out.cmd = "resume"
    /\ out.ret = Num(-1)
    /\ IsActive(Mem, out.file)
    /\ clock > 0

\* C8: a pause whose target has no session record does not report that the
\* timer was paused.
C8_PauseUntrackedNotReported ==
    (/\ out.cmd = "pause"
     /\ out.file \in Files
     /\ HasMap(Mem)
     /\ ~IsTracked(Mem, out.file))
    => ~Printed(out, "Paused timer")

\* C9: right after a successful gen of F at time t, the record of F, in
\* memory and as persisted, is Active with generated = resumed = t and no
\* blank time, and retrieveSecondsSpent(F) at t is 0.
C9_GenerateStartsActive ==
    [][(Step("gen") /\ Printed(out', "Generated"))
        => LET f == out'.file
               e == RecOf(Mem', f)
           IN  /\ IsActive(Mem', f)
               /\ e.generated = toISOString(clock)
               /\ e.resumed = toISOString(clock)
               /\ BlankOrZero(e) = 0
               /\ retrieveSecondsSpent(Mem', f, clock) = 0
               /\ IsTracked(loadState(disk'), f)
               /\ RecOf(loadState(disk'), f) = e]_vars

C9_Witness ==
    /\ out.cmd = "gen"
    /\ Printed(out, "Generated")
    /\ clock > 0
    /\ IsActive(Mem, out.file)
    /\ RecOf(Mem, out.file).generated = toISOString(clock)

\* C10 as stated: once a file is tracked, no later operation, a gen of the
\* same file name included, changes its generated timestamp.
C10_GeneratedNeverChanges ==
    [][\A f \in Files :
        IsTracked(Doc, f)
        => /\ IsTracked(loadState(disk'), f)
           /\ RecOf(loadState(disk'), f).generated = RecOf(Doc, f).generated]_vars

\* C10 as amended: the generated timestamp of a tracked file is not changed
\* by pause, resume, wind, run or status; a later successful gen of the same
\* file name sets it to the time of that gen.
C10_GeneratedChangesOnlyOnGen ==
    [][\A f \in Files :
        IsTracked(Doc, f)
        => /\ IsTracked(loadState(disk'), f)
           /\ IF Step("gen") /\ out'.file = f /\ Printed(out', "Generated")
              THEN RecOf(loadState(disk'), f).generated = toISOString(clock)
              ELSE RecOf(loadState(disk'), f).generated = RecOf(Doc, f).generated]_vars

C10_Witness ==
    /\ out.cmd = "resume"
    /\ Doc.stats.generated = 2
    /\ IsTracked(Doc, FileA)
    /\ RecOf(Doc, FileA).resumed = toISOString(clock)
    /\ DateOf(RecOf(Doc, FileA).generated) = TickMs
    /\ clock > TickMs

\* C11: a run of a file name that is not in the working directory prints
\* 'File does not exist', spawns no process and leaves memory (lastRun and
\* the run counter included) and the persisted document as they were.
C11_RunMissingFileFailsFast ==
    [][(Step("run") /\ fs[out'.file] = Undefined)
        => /\ out'.log = <<Line("File does not exist", out'.file)>>
           /\ out'.spawned = <<>>
           /\ Mem'.lastRun = Mem.lastRun
           /\ Mem'.stats.run = Mem.stats.run
           /\ Mem' = Mem
           /\ disk' = disk]_vars

C11_Witness ==
    /\ out.cmd = "run"
    /\ out.file = FileA
    /\ fs[FileA] = Undefined
    /\ Printed(out, "File does not exist")
    /\ Doc.lastRun = FileC
    /\ Doc.stats.run = 1

\* C12: once a run has passed the existence test, the persisted document
\* (and memory) name the file as lastRun, whatever the children return, and
\* no child process is spawned before that write: while the run has not
\* reached its dispatch nothing has been spawned, and the document already
\* holds the file name.
C12_RunRecordsAttemptBeforeSpawn ==
    Dispatched(out)
        => /\ Doc.lastRun = out.file
           /\ Mem.lastRun = out.file
           /\ Doc.stats.run = Mem.stats.run
           /\ pc[1] = "spawning" => out.spawned = <<>>

C12_Witness ==
    /\ pc[1] = "exited"
    /\ Dispatched(out)
    /\ out.file = FileC
    /\ Last(out.log).msg = "Compilation failed with exit code"
    /\ Len(out.spawned) = 1
    /\ Doc.lastRun = FileC
    /\ Doc.lastGenerated = FileA

\* The lines with which the commands report an error of the taxonomy: a
\* missing file, a failed compile, a failed run, an invalid transition.
ErrorReports ==
    {"File does not exist", "Last file no longer exists",
     "Compilation failed with exit code", "Timer is already running"}
        \cup RunFailures

\* C13: a command that reported an error of the taxonomy ended with a
\* non-zero exit status, and no command ended in an unhandled rejection.
C13_ErrorsExitNonZero ==
    /\ (\E m \in ErrorReports : Printed(out, m)) => out.exit # 0
    /\ ~Printed(out, "Unhandled rejection")

\* C14: a run whose compiler or program could not be launched ends with a
\* report of its own, neither the compile-failure line nor a run-failure
\* line.
C14_LaunchFailureReportedApart ==
    (/\ Dispatched(out)
     /\ out.spawned # <<>>
     /\ Last(out.spawned).status \in LaunchFailed)
        => Last(out.log).msg \notin {"Compilation failed with exit code"} \cup RunFailures

\* The extensions the switch of the run action has a case for.
RegisteredExts == CompiledExts \cup {ExtJs, ExtPy}

\* C15: a run of an existing file whose extension has no case spawns no
\* process and prints the 'no specific handler' note followed by the
\* success report 'Run completed', and no error line.
C15_UnhandledIsSuccess ==
    (Dispatched(out) /\ extname(out.file) \notin RegisteredExts)
        => /\ out.spawned = <<>>
           /\ out.log = <<Line("Running", out.file),
                          Line("No specific test handler", extname(out.file)),
                          Line("Run completed", out.file)>>
           /\ \A m \in ErrorReports : ~Printed(out, m)
           /\ out.exit = 0

C15_Witness ==
    /\ Dispatched(out)
    /\ out.file = FileTxt
    /\ Printed(out, "No specific test handler")
    /\ Last(out.log).msg = "Run completed"
    /\ Doc.lastRun = FileTxt

\* The fields of a record that say whether the file is active or paused and
\* how long it has been.
SameTimer(a, b) ==
    /\ a.generated = b.generated
    /\ a.resumed = b.resumed
    /\ a.paused = b.paused
    /\ a.blank = b.blank

\* C16: a wind leaves generated, resumed, paused and blank of every record
\* as they were, in memory and in the persisted document; it creates and
\* removes no record, and the records of the other files are untouched.
C16_WindKeepsTimerFields ==
    [][Step("wind")
        => \A f \in Files :
              /\ IsTracked(Mem', f) = IsTracked(Mem, f)
              /\ IsTracked(Doc', f) = IsTracked(Doc, f)
              /\ IsTracked(Mem, f) => SameTimer(RecOf(Mem', f), RecOf(Mem, f))
              /\ IsTracked(Doc, f) => SameTimer(RecOf(Doc', f), RecOf(Doc, f))
              /\ (HasMap(Mem) /\ f # out'.file) => Entry(Mem', f) = Entry(Mem, f)]_vars

C16_Witness ==
    /\ out.cmd = "wind"
    /\ out.file = FileA
    /\ Printed(out, "Copied")
    /\ IsPaused(Doc, FileA)
    /\ Truthy(RecOf(Doc, FileA).blank)
    /\ RecOf(Doc, FileA).lastWinded = toISOString(clock)
    /\ DateOf(RecOf(Doc, FileA).paused) < clock

\* C17: a wind that copied a tracked file reads lastWinded as it was stored
\* before this wind: when there was none it prints no 'Since last wind'
\* line (the sentinel -1), otherwise it prints the whole seconds between
\* the stored lastWinded and now; then lastWinded is now, in memory and in
\* the persisted document.
C17_SinceLastWindUsesStoredStamp ==
    [][(Step("wind") /\ Printed(out', "Copied") /\ IsTracked(Mem, out'.file))
        => LET f == out'.file
               old == RecOf(Mem, f).lastWinded
           IN  /\ ~Truthy(old) => /\ ~Printed(out', "Since last wind")
                                  /\ retrieveSecondsSinceLastWind(Mem, f, clock) = -1
               /\ Truthy(old) =>
                     Last(out'.log) = Line("Since last wind",
                                           Num(FloorSeconds(clock - DateOf(old))))
               /\ RecOf(Mem', f).lastWinded = toISOString(clock)
               /\ RecOf(Doc', f).lastWinded = toISOString(clock)]_vars

C17_Witness ==
    /\ out.cmd = "wind"
    /\ out.file = FileA
    /\ Last(out.log) = Line("Since last wind", Num(1))
    /\ RecOf(Doc, FileA).lastWinded = toISOString(clock)
    /\ clock = MsPerSec

\* C18: once a gen has generated a file, or a run has passed its existence
\* test, that file is the one the next wind takes as its target.
C18_WindTargetsMostRecent ==
    (\/ out.cmd = "gen" /\ Printed(out, "Generated")
     \/ Dispatched(out) /\ pc[1] = "exited")
        => targetFile(Doc) = out.file

\* There is no state document to read: none, or one that does not parse.
NoDocument == disk \in {Absent, Corrupt}

\* C19: an invocation that finds no readable state document starts on the
\* default state (lastGenerated and lastRun null, counters 0, an empty map
\* of records) with exit status 0, and the command it then runs does not
\* end in an unhandled rejection.
C19_NoDocumentLoadsDefault ==
    /\ [](NoDocument /\ pc[1] = "loaded"
            => /\ Mem.lastGenerated = Null /\ Mem.lastRun = Null
               /\ Mem.stats = [generated |-> 0, run |-> 0]
               /\ HasMap(Mem) /\ Tracked(Mem) = 0
               /\ Mem = DefaultState
               /\ out.cmd = "load" /\ out.exit = 0)
    /\ [][(NoDocument /\ pc[1] = "loaded" /\ pc'[1] = "exited")
            => ~Printed(out', "Unhandled rejection") /\ out'.exit = 0]_vars

C19_Witness ==
    /\ disk = Corrupt
    /\ pc[1] = "loaded"
    /\ clock > 0
    /\ out.log = <<Line("Warning: Could not load previous state", Undefined)>>
    /\ Mem = DefaultState

\* C20: a gen of a file whose extension has no template prints 'No template
\* found' and changes neither the working directory, nor memory, nor the
\* persisted document; a gen with a template leaves the file with the
\* template's contents and lastGenerated naming it, and once it has
\* reported 'Generated' the persisted document names it too and counts it.
C20_GenNeedsTemplate ==
    [][Step("gen")
        => LET f == out'.file
               ext == extname(f)
           IN  /\ ext \notin Templates
                    => /\ out'.log = <<Line("No template found", ext)>>
                       /\ fs' = fs
                       /\ Mem' = Mem
                       /\ disk' = disk
               /\ ext \in Templates
                    => /\ fs'[f] = TemplateText(ext)
                       /\ Mem'.lastGenerated = f
                       /\ Mem'.stats.generated = Mem.stats.generated + 1
                       /\ Printed(out', "Generated")
                            => /\ Doc'.lastGenerated = f
                               /\ Doc'.stats.generated = Mem.stats.generated + 1
                               /\ IsTracked(Doc', f)]_vars

C20_Witness ==
    /\ out.cmd = "gen"
    /\ out.file = FileC
    /\ Printed(out, "No template found")
    /\ fs[FileA] = TemplateText(ExtCpp)
    /\ Doc.lastGenerated = FileA
    /\ Doc.stats.generated = 1
    /\ IsTracked(Doc, FileA)
    /\ ~IsTracked(Doc, FileC)

\* C21: a resume whose target is on disk and paused makes it active: its
\* record has paused cleared and resumed = now, in memory and in the
\* persisted document, and the value resumeTimer returned is the whole
\* seconds between the stored paused stamp and now.
C21_ResumePausedMakesActive ==
    [][(Step("resume") /\ Reached(Mem) /\ IsPaused(Mem, targetFile(Mem)))
        => LET f == targetFile(Mem)
               pausedAt == DateOf(RecOf(Mem, f).paused)
           IN  /\ out'.file = f
               /\ IsActive(Mem', f)
               /\ RecOf(Mem', f).paused = Null
               /\ RecOf(Mem', f).resumed = toISOString(clock)
               /\ out'.ret = Num((clock - pausedAt) \div MsPerSec)
               /\ Doc' = Mem']_vars

C21_Witness ==
    /\ out.cmd = "resume"
    /\ out.file = FileA
    /\ out.ret = Num(1)
    /\ IsActive(Doc, FileA)
    /\ RecOf(Doc, FileA).paused = Null
    /\ RecOf(Doc, FileA).resumed = toISOString(clock)
    /\ clock = MsPerSec

\* The interpreter and the compiler the switch starts for an extension.
InterpreterOf(ext) == IF ext = ExtJs THEN Node ELSE Python
CompilerOf(ext) ==
    IF ext = ExtC THEN Gcc ELSE IF ext = ExtJava THEN Javac ELSE Gpp

\* C22: a run that passed the existence test spawns, for a .js or .py file,
\* exactly one process, the interpreter with the file as its argument; for
\* a compiled extension one compiler process first and then at most one
\* more process, which is not a compiler; nothing is spawned twice.
C22_EachPhaseOnce ==
    Dispatched(out) =>
        LET ext == extname(out.file)
            n == Len(out.spawned)
        IN  /\ ext \in {ExtJs, ExtPy}
                 => /\ n = 1
                    /\ out.spawned[1].cmd = InterpreterOf(ext)
                    /\ out.spawned[1].args = <<out.file>>
            /\ ext \in CompiledExts
                 => /\ n \in {1, 2}
                    /\ out.spawned[1].cmd = CompilerOf(ext)
                    /\ n = 2 => /\ out.spawned[2].cmd \notin Compilers
                                /\ out.spawned[1].status = Num(0)
            /\ Cardinality({i \in 1..n : out.spawned[i].cmd \in Compilers}) <= 1

C22_Witness ==
    /\ Dispatched(out)
    /\ out.file = FilePy
    /\ out.spawned = <<Spawn(Python, <<FilePy>>, Num(1))>>
    /\ Last(out.log).msg = "Python execution failed with exit code"

\* The step is a command of process p that wrote the persisted document.
Saved(p) == pc[p] = "loaded" /\ pc'[p] = "exited" /\ disk' # disk

\* C23: every write of the persisted document is the whole in-memory copy
\* of the process that writes, made from what that process loaded: a wind
\* writes the paused stamp its own memory had, and a pause writes the
\* lastWinded its own memory had, whatever the other process has saved
\* since this one loaded.
C23_LastWriterWins ==
    [][\A p \in Procs :
          Saved(p) =>
             /\ disk' = saveState(state'[p])
             /\ \A f \in Files :
                   (IsTracked(state[p], f) /\ IsTracked(Doc', f)) =>
                      /\ out'.cmd = "wind"
                           => RecOf(Doc', f).paused = RecOf(state[p], f).paused
                      /\ out'.cmd = "pause"
                           => RecOf(Doc', f).lastWinded = RecOf(state[p], f).lastWinded]_vars

C23_Witness ==
    /\ pc[1] = "exited" /\ pc[2] = "exited"
    /\ out.cmd = "wind"
    /\ IsPaused(state[1], FileA)
    /\ DateOf(RecOf(state[1], FileA).paused) < clock
    /\ IsTracked(state[2], FileA)
    /\ RecOf(state[2], FileA).lastWinded = toISOString(clock)
    /\ Doc = state[2]
    /\ IsActive(Doc, FileA)

\* The file name without its final extension.
Stripped(filename) == SubSeq(filename, 1, Len(filename) - Len(extname(filename)))

\* The artifact the compiler was told to write: the argument after -o.
ArtifactOf(o) == o.spawned[1].args[2]

\* C24: a run of a .cpp, .cc, .cxx or .c file tells the compiler to write
\* the artifact named as the file without its final extension.
C24_ArtifactStripsFinalExtension ==
    (Dispatched(out) /\ extname(out.file) \in {ExtCpp, ExtCc, ExtCxx, ExtC})
        => ArtifactOf(out) = Stripped(out.file)

\* C25: when a compiled run reaches its run phase, a C or C++ run executes
\* './' followed by the artifact the compiler was told to write, and a Java
\* run executes java with the class of the source file.
C25_RunExecutesTheArtifact ==
    (Dispatched(out) /\ Len(out.spawned) = 2)
        => LET ext == extname(out.file)
               ran == out.spawned[2]
           IN  /\ ext \in {ExtCpp, ExtCc, ExtCxx, ExtC}
                    => ran.cmd = DotSlash \o ArtifactOf(out)
               /\ ext = ExtJava
                    => ran.cmd = Java /\ ran.args = <<Stripped(basename(out.file))>>

\* C26: a resume that changed the record (its target was paused) returns a
\* value that is neither the value for a file without a record (0) nor the
\* value for an active file (-1), and the command reports 'Resumed timer'.
C26_ResumeResultsDistinct ==
    [][(Step("resume") /\ Reached(Mem) /\ IsPaused(Mem, targetFile(Mem)))
        => /\ out'.ret # resumeTimer(DefaultState, FileA, clock).ret
           /\ out'.ret # Num(-1)
           /\ Printed(out', "Resumed timer")]_vars

\* C27: a gen that reports 'Generated' for a file that had a record leaves
\* a record with generated = resumed = now and nothing else, whatever the
\* old record held, in memory and in the persisted document; the seconds
\* since the last wind of that record are the never-winded sentinel.
C27_RegenerateReplacesRecord ==
    [][(Step("gen") /\ Printed(out', "Generated") /\ IsTracked(Mem, out'.file))
        => LET f == out'.file
               ts == toISOString(clock)
               fresh == [generated |-> ts, resumed |-> ts, paused |-> Undefined,
                         blank |-> Undefined, lastWinded |-> Undefined]
           IN  /\ RecOf(Mem', f) = fresh
               /\ RecOf(Doc', f) = fresh
               /\ retrieveSecondsSinceLastWind(Mem', f, clock) = -1
               /\ retrieveSecondsSinceLastWind(Doc', f, clock + MsPerSec) = -1]_vars

C27_Witness ==
    /\ out.cmd = "gen"
    /\ out.file = FileA
    /\ Printed(out, "Generated")
    /\ Doc.stats.generated = 2
    /\ clock = MsPerSec
    /\ RecOf(Doc, FileA).generated = toISOString(clock)
    /\ RecOf(Doc, FileA).lastWinded = Undefined
    /\ RecOf(Doc, FileA).paused = Undefined

\* C28: for every tracked file, the seconds retrieveSecondsSpent returns now
\* are at least 0 and at most the whole seconds since the file was generated.
C28_ActiveTimeWithinWallClock ==
    \A f \in Files :
        IsTracked(Doc, f) =>
            LET spent == retrieveSecondsSpent(Doc, f, clock)
            IN  /\ 0 <= spent
                /\ spent <= FloorSeconds(clock - DateOf(RecOf(Doc, f).generated))

\* C29: while the persisted document has no fileTimestamps, no command ends
\* in an unhandled rejection, and a gen that wrote its file from the
\* template also recorded it: it reported 'Generated' and the persisted
\* document counts it.
C29_LegacyDocumentHandled ==
    ~HasMap(Doc) =>
        /\ ~Printed(out, "Unhandled rejection")
        /\ (out.cmd = "gen" /\ fs[out.file] = TemplateText(extname(out.file)))
              => /\ Printed(out, "Generated")
                 /\ Doc.stats.generated = Mem.stats.generated

\* C30: a pause, resume or wind whose target is on disk and has no record
\* changes neither memory nor the persisted document, so no record is made
\* for it; and whatever a command does, the records of the files other than
\* the one it is about stay as they were, in memory and in the document.
C30_UntrackedAndOthersUntouched ==
    [][(pc[1] = "loaded" /\ pc'[1] = "exited" /\ HasMap(Mem))
        => /\ (/\ out'.cmd \in {"pause", "resume", "wind"}
               /\ Reached(Mem)
               /\ ~IsTracked(Mem, targetFile(Mem)))
                 => /\ Mem' = Mem
                    /\ disk' = disk
                    /\ ~IsTracked(Doc', targetFile(Mem))
           /\ \A f \in Files :
                 f # out'.file => /\ Entry(Mem', f) = Entry(Mem, f)
                                  /\ Entry(Doc', f) = Entry(Doc, f)]_vars

C30_Witness ==
    /\ out.cmd = "pause"
    /\ out.file = FileC
    /\ Printed(out, "Paused timer")
    /\ HasMap(Doc)
    /\ ~IsTracked(Doc, FileC)
    /\ IsTracked(Doc, FileA)
    /\ IsPaused(Doc, FileB)
    /\ Doc = Mem

====
